---- MODULE Spec2Model ----
(***************************************************************************)
(* A model of the backtest engine of cryptobot/bot/backtesting:            *)
(* BacktestEngine (backtest_engine.py), the order types it consumes        *)
(* (execution/order_types.py), the trade log of PerformanceAnalyzer        *)
(* (performance_metrics.py), the candle store, the chunked historical      *)
(* fetch and the websocket task of DataHandler (data_handler.py) and       *)
(* DataCache (data_cache.py).                                              *)
(*                                                                         *)
(* Numbers.  Prices are integers counted in thousands of dollars, money    *)
(* (capital, fees, slippage, pnl) is an integer counted in tenths of a     *)
(* dollar, so that commission (0.001 of the notional) and basic slippage   *)
(* (0.0001 of the price) are exact.  average_price and portfolio_value     *)
(* are quotients in the code and are kept as normalised fractions [n, d].  *)
(* Every price of the model is positive, so "if filled_price:" (line 236)  *)
(* is true exactly when _calculate_fill_price returned a price.            *)
(***************************************************************************)
EXTENDS Integers, Sequences, FiniteSets, TLC

\* ---------------------------------------------------------------- bounds
MaxTicks == 2
MaxOrders == 2
MaxQty == 2

\* ------------------------------------------------------ program constants
\* money units per price unit: 10 tenths to the dollar, 1000 dollars to the
\* price unit
PriceScale == 10 * 1000
\* initial_capital = 100000.0 dollars, in tenths of a dollar
InitialCapital == 100000 * 10
\* commission_rate = 0.001
CommissionDen == 1000
\* basic slippage = 0.0001 of the fill price
SlippageDen == 10000
\* price=None of an OrderRequest, _calculate_fill_price returning None
NoPrice == 0

VARIABLES
    mode,             \* "historical" (run_historical) or "realtime" (run_realtime)
    pc,               \* "created", "running", "done"
    symbols,          \* BacktestEngine.symbols, a list
    fetch_failed,     \* the symbols whose fetch_historical_data failed
    slippage_model,   \* BacktestEngine.slippage_model
    current_capital,  \* BacktestEngine.current_capital
    positions,        \* BacktestEngine.positions
    open_orders,      \* BacktestEngine.open_orders
    filled_orders,    \* BacktestEngine.filled_orders
    trades,           \* PerformanceAnalyzer.trades
    trade_history,    \* BacktestEngine.trade_history
    equity_curve,     \* BacktestEngine.equity_curve
    latest,           \* per symbol, the last candle at or before now
    feed,             \* history: the timestamps the feed delivered
    present,          \* history: the symbols with a candle at the last
                      \* timestamp of a historical run
    signals,          \* what strategy.analyze_market returned last
    strategy_raised,  \* history: analyze_market raised at the last tick
    fills,            \* history: each fill with the order it filled
    appended,         \* history: the orders appended to open_orders
    result,           \* what the run returned
    metrics_log,      \* history: what each calculate_metrics call did since
                      \* the last add_trade
    analyzer_equity,  \* PerformanceAnalyzer.equity_curve
    returns,          \* the returns handed to _calculate_sortino_ratio
    sortino,          \* what _calculate_sortino_ratio returned for them
    slippage_call,    \* the arguments of a call of _calculate_slippage
    slippage_result,  \* what that call returned
    ws_task,          \* the task running DataHandler._process_ws_messages:
                      \* "none", "running" or "stopped"
    received,         \* history: the messages that task got from ws.recv()
    start_ts,         \* fetch_historical_data: start_time, as a timestamp
    end_ts,           \* fetch_historical_data: end_time, as a timestamp
    utc_offset,       \* the offset of the machine's local time from UTC
    current_ts,       \* fetch_historical_data: the cursor of the chunk loop
    all_candles,      \* fetch_historical_data: the timestamps of all_candles
    fetch_pc,         \* fetch_historical_data: "idle", "loop" or "returned"
    cache             \* DataCache._cache: per cached symbol, its rows

vars == <<mode, pc, symbols, fetch_failed, slippage_model, current_capital,
          positions, open_orders, filled_orders, trades, trade_history, equity_curve, latest, feed,
          present, signals, strategy_raised, fills, appended, result,
          metrics_log, analyzer_equity, returns, sortino, slippage_call,
          slippage_result, ws_task, received, start_ts, end_ts, utc_offset,
          current_ts, all_candles, fetch_pc, cache>>

\* the variables of the calls made on an analyzer or an engine directly
call_vars ==
    <<metrics_log, analyzer_equity, returns, sortino, slippage_call,
      slippage_result>>

\* the variables of the message-processing task of the DataHandler
feed_vars == <<ws_task, received>>

\* the variables of a call of DataHandler.fetch_historical_data
fetch_vars ==
    <<start_ts, end_ts, utc_offset, current_ts, all_candles, fetch_pc>>

\* the symbols an engine is built for
SymbolLists == {<<"BTCUSDT">>}
\* the engine's symbols, as a set
Symbols == {symbols[i] : i \in DOMAIN symbols}
Prices == {50, 51}
\* volume of a candle, in thousands of dollars of notional
Volumes == {1}
SlippageModels == {"basic", "volume_based", "volume_weighted"}

NoBar == [low |-> 0, high |-> 0, close |-> 0, volume |-> 0]
\* MockExchange.fetch_ohlcv draws high, low and close independently of each
\* other: a candle's close need not lie between its low and its high.  The
\* candles of the model: either close within [low, high], a candle that a
\* limit buy at the low price does not cross, and one that a limit sell at
\* the high price does not cross and whose close lies above its high.
Candle(low, high, close) ==
    {[low |-> low, high |-> high, close |-> close, volume |-> v] :
        v \in Volumes}
Bars ==
    Candle(50, 51, 50) \cup Candle(50, 51, 51) \cup Candle(51, 51, 51)
    \cup Candle(50, 50, 51)

\* OrderType.MARKET and OrderType.LIMIT are Enum members, "market" and "limit"
\* are the plain strings: an Enum member is not equal to its value.
OrderType_MARKET == "OrderType.MARKET"
OrderType_LIMIT == "OrderType.LIMIT"
OrderSide_BUY == "buy"
OrderSide_SELL == "sell"

\* The OrderRequest values a caller can hand to the engine: market orders of
\* either side, a limit buy at the low price and a limit sell at the high one
\* (each fills on some candles and not on others), an immediate-or-cancel
\* limit buy, and orders typed with the Enum members.
RequestOf(side, order_type, quantity, price, time_in_force) ==
    {[symbol |-> s, side |-> side, order_type |-> order_type,
      quantity |-> quantity, price |-> price,
      time_in_force |-> time_in_force] : s \in Symbols}

OrderRequest ==
    UNION {RequestOf(side, "market", q, NoPrice, "GTC") :
              side \in {OrderSide_BUY, OrderSide_SELL}, q \in 1..MaxQty}
    \cup RequestOf(OrderSide_BUY, "limit", 1, 50, "GTC")
    \cup RequestOf(OrderSide_SELL, "limit", 1, 51, "GTC")
    \cup RequestOf(OrderSide_BUY, "limit", 1, 50, "IOC")
    \cup RequestOf(OrderSide_BUY, OrderType_MARKET, 1, NoPrice, "GTC")
    \cup RequestOf(OrderSide_BUY, OrderType_LIMIT, 1, 51, "GTC")

\* ------------------------------------------------------------ arithmetic
Abs(x) == IF x < 0 THEN -x ELSE x

RECURSIVE GCD(_, _)
GCD(a, b) == IF b = 0 THEN a ELSE GCD(b, a % b)

\* the fraction n/d in lowest terms, d > 0
Rat(n, d) ==
    LET g == GCD(Abs(n), Abs(d))
        s == IF d < 0 THEN -1 ELSE 1
    IN  [n |-> s * (n \div g), d |-> s * (d \div g)]

RatAdd(x, y) == Rat(x.n * y.d + y.n * x.d, x.d * y.d)

\* str(n) for n >= 0
Digits == <<"0", "1", "2", "3", "4", "5", "6", "7", "8", "9">>
RECURSIVE Str(_)
Str(n) == IF n < 10 THEN Digits[n + 1]
          ELSE Str(n \div 10) \o Digits[(n % 10) + 1]

\* ------------------------------------------------------------ the engine
\* list.remove(x): the first element equal to x is removed
RECURSIVE Remove(_, _)
Remove(seq, x) ==
    IF seq = <<>> THEN <<>>
    ELSE IF Head(seq) = x THEN Tail(seq)
    ELSE <<Head(seq)>> \o Remove(Tail(seq), x)

\* BacktestEngine._calculate_fill_price
CalculateFillPrice(order, market_data) ==
    IF order.order_type = "market" THEN market_data.close
    ELSE IF order.order_type = "limit"
    THEN IF \/ order.side = OrderSide_BUY /\ market_data.low <= order.price
            \/ order.side = OrderSide_SELL /\ market_data.high >= order.price
         THEN order.price
         ELSE NoPrice
    ELSE NoPrice

\* BacktestEngine._calculate_fees
CalculateFees(quantity, price) ==
    (quantity * price * PriceScale) \div CommissionDen

\* a float: a finite value, or inf, or nan
Finite(value) == [kind |-> "finite", value |-> value]
Inf == [kind |-> "inf", value |-> 0]
NaN == [kind |-> "nan", value |-> 0]

\* BacktestEngine._calculate_slippage, as a float.  market_data is a row of
\* a frame: dividing by its volume, a numpy float, when it is 0 gives inf (nan
\* for 0/0) and a warning, not an exception.
SlippageValue(model, quantity, fill_price, volume) ==
    IF model = "basic"
    THEN Finite(Abs((fill_price * PriceScale) \div SlippageDen))
    ELSE IF model = "volume_based"
    THEN IF volume = 0
         THEN IF quantity * fill_price = 0 THEN NaN ELSE Inf
         ELSE Finite(Abs((((fill_price * PriceScale) \div SlippageDen)
                          * (volume + quantity * fill_price))
                         \div volume))
    ELSE Finite(0)

\* BacktestEngine._calculate_slippage
CalculateSlippage(order, fill_price, market_data) ==
    SlippageValue(slippage_model, order.quantity, fill_price,
                  market_data.volume).value

\* positions[symbol] once "symbol not in self.positions" has been handled
PositionOf(pos, symbol) ==
    IF symbol \in DOMAIN pos THEN pos[symbol]
    ELSE [quantity |-> 0, average_price |-> Rat(0, 1), realized_pnl |-> 0]

\* a _update_position that clamps the quantity at zero
UpdatedPositionClamped(pos, order, fill_price) ==
    LET quantity == IF order.side = OrderSide_BUY THEN order.quantity
                    ELSE -order.quantity
        position == PositionOf(pos, order.symbol)
        total == position.quantity + quantity
    IN  [quantity |-> IF total < 0 THEN 0 ELSE total,
         average_price |-> IF position.quantity = 0 THEN Rat(fill_price, 1)
                           ELSE position.average_price,
         realized_pnl |-> position.realized_pnl]

\* a _update_position that takes the last fill price as the average price
UpdatedPositionLastPrice(pos, order, fill_price) ==
    LET quantity == IF order.side = OrderSide_BUY THEN order.quantity
                    ELSE -order.quantity
        position == PositionOf(pos, order.symbol)
    IN  [quantity |-> position.quantity + quantity,
         average_price |-> Rat(fill_price, 1),
         realized_pnl |-> position.realized_pnl]

\* BacktestEngine._update_position: the new position of order.symbol
UpdatedPosition(pos, order, fill_price) ==
    LET quantity == IF order.side = OrderSide_BUY THEN order.quantity
                    ELSE -order.quantity
        position == PositionOf(pos, order.symbol)
        avg == IF position.quantity = 0 THEN Rat(fill_price, 1)
               ELSE IF \/ position.quantity > 0 /\ quantity > 0
                       \/ position.quantity < 0 /\ quantity < 0
               THEN Rat(position.quantity * position.average_price.n
                            + quantity * fill_price * position.average_price.d,
                        (position.quantity + quantity) * position.average_price.d)
               ELSE position.average_price
    IN  [quantity |-> position.quantity + quantity,
         average_price |-> avg,
         realized_pnl |-> position.realized_pnl]

\* a _update_position that debits a sell like a buy
CapitalDebitUnsigned(order, fill_price, costs) ==
    order.quantity * fill_price * PriceScale + costs

\* BacktestEngine._update_position: what is debited from current_capital
CapitalDebit(order, fill_price, costs) ==
    LET quantity == IF order.side = OrderSide_BUY THEN order.quantity
                    ELSE -order.quantity
    IN  quantity * fill_price * PriceScale + costs

\* BacktestEngine._update_position, on the engine state st
UpdatePosition(st, order, fill_price, costs) ==
    [st EXCEPT
       !.positions = [s \in DOMAIN st.positions \cup {order.symbol} |->
                        IF s = order.symbol
                        THEN UpdatedPosition(st.positions, order, fill_price)
                        ELSE st.positions[s]],
       !.capital = st.capital - CapitalDebit(order, fill_price, costs)]

\* the TradeMetrics that BacktestEngine._record_trade builds
TradeMetrics(order, response, slippage) ==
    [entry_time |-> response.timestamp, exit_time |-> response.timestamp,
     symbol |-> order.symbol, side |-> order.side,
     entry_price |-> response.average_price,
     exit_price |-> response.average_price,
     quantity |-> order.quantity, pnl |-> 0, fees |-> response.fees,
     slippage |-> slippage, holding_period |-> 0, return_pct |-> 0]

\* BacktestEngine._record_trade: PerformanceAnalyzer.add_trade of it
RecordTrade(st, order, response, slippage) ==
    [st EXCEPT !.trades = Append(st.trades, TradeMetrics(order, response, slippage))]

\* a _process_orders that leaves the filled order in open_orders
MoveToFilledKeepsOrder(st, order, response) ==
    [st EXCEPT !.filled_orders = Append(st.filled_orders, response)]

\* a _process_orders that removes the filled order and keeps no response
MoveToFilledDropsResponse(st, order, response) ==
    [st EXCEPT !.open_orders = Remove(st.open_orders, order)]

\* BacktestEngine._process_orders, lines 258-260
MoveToFilled(st, order, response) ==
    [st EXCEPT !.open_orders = Remove(st.open_orders, order),
               !.filled_orders = Append(st.filled_orders, response)]

\* BacktestEngine._process_orders: the body of the loop, for one order
ProcessOrder(st, order, current_data, timestamp) ==
    LET filled_price == CalculateFillPrice(order, current_data[order.symbol])
    IN  IF filled_price # NoPrice
        THEN LET fees == CalculateFees(order.quantity, filled_price)
                 slippage == CalculateSlippage(order, filled_price,
                                               current_data[order.symbol])
                 response == [success |-> TRUE,
                              order_id |-> Str(Len(st.filled_orders) + 1),
                              filled_quantity |-> order.quantity,
                              average_price |-> filled_price,
                              fees |-> fees,
                              timestamp |-> timestamp]
                 s1 == UpdatePosition(st, order, filled_price, fees + slippage)
                 s2 == RecordTrade(s1, order, response, slippage)
                 s3 == MoveToFilled(s2, order, response)
             IN  [s3 EXCEPT !.fills = Append(s3.fills,
                                [order |-> order, response |-> response,
                                 slippage |-> slippage])]
        ELSE st

\* BacktestEngine._process_orders: the loop over the copy open_orders[:]
RECURSIVE ProcessFrom(_, _, _, _)
ProcessFrom(st, copy, current_data, timestamp) ==
    IF copy = <<>> THEN st
    ELSE ProcessFrom(ProcessOrder(st, Head(copy), current_data, timestamp),
                     Tail(copy), current_data, timestamp)

EngineState ==
    [capital |-> current_capital, positions |-> positions,
     open_orders |-> open_orders, filled_orders |-> filled_orders,
     trades |-> trades, fills |-> fills]

\* a _process_orders that goes through the pending orders newest first
ProcessOrdersNewestFirst(current_data, timestamp) ==
    ProcessFrom(EngineState,
                [i \in 1..Len(open_orders) |->
                    open_orders[Len(open_orders) + 1 - i]],
                current_data, timestamp)

\* BacktestEngine._process_orders, on the engine's state
ProcessOrders(current_data, timestamp) ==
    ProcessFrom(EngineState, open_orders, current_data, timestamp)

\* BacktestEngine._update_equity_curve: the portfolio value
RECURSIVE PortfolioValue(_, _, _, _)
PortfolioValue(value, pos, todo, current_data) ==
    IF todo = {} THEN value
    ELSE LET symbol == CHOOSE s \in todo : TRUE
             position == pos[symbol]
             unrealized_pnl ==
                 Rat(position.quantity
                       * (current_data[symbol].close * position.average_price.d
                            - position.average_price.n) * PriceScale,
                     position.average_price.d)
         IN  PortfolioValue(IF position.quantity # 0
                            THEN RatAdd(value, unrealized_pnl) ELSE value,
                            pos, todo \ {symbol}, current_data)

EquityPoint(capital, pos, timestamp, current_data) ==
    [timestamp |-> timestamp,
     portfolio_value |-> PortfolioValue(Rat(capital, 1), pos, DOMAIN pos,
                                        current_data)]

\* ------------------------------------------------- order creation
\* the fields of the dataclass OrderRequest, and those without a default
OrderRequestFields ==
    {"symbol", "side", "order_type", "quantity", "price", "time_in_force",
     "leverage", "reduce_only", "post_only", "client_order_id", "metadata"}
OrderRequestRequired == {"symbol", "side", "order_type", "quantity"}

\* the keyword arguments _create_order passes to OrderRequest (lines 508-515)
CreateOrderKwargs ==
    {"symbol", "side", "quantity", "price", "type", "timestamp"}

\* OrderRequest(**kwargs) returns; otherwise it raises TypeError
Constructs(kwargs) ==
    kwargs \subseteq OrderRequestFields /\ OrderRequestRequired \subseteq kwargs

NoOrder == [order_type |-> "None"]

\* a _create_order that builds the order of any signal, whatever its size
CreateOrderUnchecked(signal) ==
    [symbol |-> symbols[1],
     side |-> IF signal.side = "buy" THEN OrderSide_BUY ELSE OrderSide_SELL,
     order_type |-> "market", quantity |-> signal.size,
     price |-> NoPrice, time_in_force |-> "GTC"]

\* BacktestEngine._create_order; signal.size is what
\* strategy_class.calculate_position_size returns for it
CreateOrder(signal) ==
    IF signal.size <= 0 THEN NoOrder
    ELSE IF Constructs(CreateOrderKwargs)
    THEN [symbol |-> symbols[1],
          side |-> IF signal.side = "buy" THEN OrderSide_BUY ELSE OrderSide_SELL,
          order_type |-> "market", quantity |-> signal.size,
          price |-> NoPrice, time_in_force |-> "GTC"]
    ELSE NoOrder

\* run_historical lines 134-138: the orders of the signals, in order
RECURSIVE CreatedOrders(_)
CreatedOrders(sigs) ==
    IF sigs = <<>> THEN <<>>
    ELSE LET order == CreateOrder(Head(sigs))
         IN  (IF order # NoOrder THEN <<order>> ELSE <<>>)
             \o CreatedOrders(Tail(sigs))

\* what strategy.analyze_market does at one tick: it raises, or it returns
\* signals, each with the position size computed for it
StrategyOutcomes ==
    {[raises |-> TRUE, signals |-> <<>>], [raises |-> FALSE, signals |-> <<>>]}
    \cup {[raises |-> FALSE, signals |-> <<[side |-> "buy", size |-> 1]>>]}
    \cup {[raises |-> FALSE,
           signals |-> <<[side |-> "sell", size |-> 0],
                         [side |-> "buy", size |-> 1]>>]}

\* ------------------------------------------------------------ analyzer
MaxTrades == 2
MaxCalls == 2
MaxReturns == 3

\* calculate_metrics, line 167: initial_capital + the cumulative pnl
RECURSIVE CumulativeEquity(_, _)
CumulativeEquity(ts, base) ==
    IF ts = <<>> THEN <<>>
    ELSE <<base + Head(ts).pnl>>
         \o CumulativeEquity(Tail(ts), base + Head(ts).pnl)

\* PerformanceAnalyzer.calculate_metrics: None without trades (line 149);
\* with trades, returns is a series indexed by the trade number and
\* returns.resample('D') (line 172) raises TypeError, also when it is empty
CalculateMetrics(ts) ==
    IF ts = <<>> THEN [kind |-> "None"] ELSE [kind |-> "TypeError"]

\* sum of a sequence of integers
RECURSIVE Sum(_)
Sum(seq) == IF seq = <<>> THEN 0 ELSE Head(seq) + Sum(Tail(seq))

\* PerformanceAnalyzer._calculate_sortino_ratio, the returns counted in
\* hundredths.  A finite result other than 0.0 is
\* sqrt(252) * excess / sqrt(downside_sq), kept as the two fractions;
\* risk_free_rate / 252 = 0.02 / 252 = 1 / 12600.
SortinoRatio(rs) ==
    IF rs = <<>> THEN [kind |-> "0.0"]
    ELSE LET negative_returns == SelectSeq(rs, LAMBDA r : r < 0)
         IN  IF Len(negative_returns) = 0 THEN [kind |-> "inf"]
             ELSE LET squares == [i \in DOMAIN negative_returns |->
                                     negative_returns[i] * negative_returns[i]]
                      downside_sq == Rat(Sum(squares),
                                         10000 * Len(negative_returns))
                  IN  IF downside_sq.n = 0 THEN [kind |-> "0.0"]
                      ELSE [kind |-> "finite",
                            excess |-> RatAdd(Rat(Sum(rs), 100 * Len(rs)),
                                              Rat(-1, 12600)),
                            downside_sq |-> downside_sq]

\* ------------------------------------------------------------ results
NoResult == [tag |-> "none"]
\* the empty dict that run_historical and run_realtime return on an exception
EmptyDict == [tag |-> "{}"]

\* BacktestEngine._generate_results.  set_index('timestamp') raises KeyError
\* on the frame of an empty equity curve; an exception of calculate_metrics
\* leaves through the caller's except clause.
GenerateResults ==
    IF equity_curve = <<>> THEN EmptyDict
    ELSE IF CalculateMetrics(trades).kind = "TypeError" THEN EmptyDict
    ELSE [tag |-> "results", metrics |-> CalculateMetrics(trades).kind,
          equity_curve |-> equity_curve,
          trades |-> trade_history, positions |-> positions]

\* ------------------------------------------------------------ behaviour
Now == IF feed = <<>> THEN 0 ELSE feed[Len(feed)]

\* what a timestamp of the timeline holds: a candle of each symbol that has
\* this timestamp in its series, of one symbol at least; a symbol whose fetch
\* failed has an empty series
Snapshots ==
    {f \in [Symbols -> Bars \cup {NoBar}] :
        /\ \E s \in Symbols : f[s] # NoBar
        /\ \A s \in fetch_failed : f[s] = NoBar}

\* BacktestEngine.__init__, for a run of either kind
Constructed ==
    /\ pc = IF mode = "historical" THEN "created" ELSE "running"
    /\ fetch_failed = {}
    /\ current_capital = InitialCapital
    /\ positions = [s \in {} |-> 0]
    /\ open_orders = <<>>
    /\ filled_orders = <<>>
    /\ trades = <<>>
    /\ trade_history = <<>>
    /\ equity_curve = <<>>
    /\ latest = [s \in Symbols |-> NoBar]
    /\ feed = <<>>
    /\ present = {}
    /\ signals = <<>>
    /\ strategy_raised = FALSE
    /\ fills = <<>>
    /\ appended = <<>>
    /\ result = NoResult

NoCall == [kind |-> "none", value |-> 0]
NoSlippageCall ==
    [model |-> "none", quantity |-> 0, fill_price |-> 0, volume |-> 0]

\* nothing is called on the analyzer or the engine directly
NoCalls ==
    /\ metrics_log = <<>>
    /\ analyzer_equity = <<>>
    /\ returns = <<>>
    /\ sortino = NoCall
    /\ slippage_call = NoSlippageCall
    /\ slippage_result = NoCall

\* no message-processing task: start_real_time_feed creates one for
\* exchange_id 'binance' only, and the engine's DataHandler is a 'mock' one
NoTask ==
    /\ ws_task = "none"
    /\ received = <<>>

\* no call of fetch_historical_data is followed chunk by chunk, and there is
\* no DataCache: the data_cache of a DataHandler is a plain dict
NoFetch ==
    /\ start_ts = 0
    /\ end_ts = 0
    /\ utc_offset = 0
    /\ current_ts = 0
    /\ all_candles = <<>>
    /\ fetch_pc = "idle"
    /\ cache = <<>>

Init ==
    /\ mode \in {"historical", "realtime"}
    /\ symbols \in SymbolLists
    /\ slippage_model \in SlippageModels
    /\ Constructed
    /\ NoCalls
    /\ NoTask
    /\ NoFetch

\* a historical run of an engine built for two symbols
InitMulti ==
    /\ mode = "historical"
    /\ symbols = <<"BTCUSDT", "ETHUSDT">>
    /\ slippage_model = "basic"
    /\ Constructed
    /\ NoCalls
    /\ NoTask
    /\ NoFetch

\* the engine state after _process_orders
Processed(st) ==
    /\ current_capital' = st.capital
    /\ positions' = st.positions
    /\ filled_orders' = st.filled_orders
    /\ trades' = st.trades
    /\ fills' = st.fills

\* lines 128-141 of run_historical and 203-216 of _handle_realtime_update:
\* pending orders, strategy, new orders, equity point.  raised: the exception
\* leaves through the handler's except clause.
Tick(current_data, timestamp, outcome, raised) ==
    LET st == ProcessOrders(current_data, timestamp)
        created == CreatedOrders(outcome.signals)
    IN  /\ Processed(st)
        /\ strategy_raised' = outcome.raises
        /\ IF outcome.raises
           THEN /\ open_orders' = st.open_orders
                /\ raised
                /\ UNCHANGED <<equity_curve, appended, signals>>
           ELSE /\ signals' = outcome.signals
                /\ open_orders' = st.open_orders \o created
                /\ appended' = appended \o created
                /\ equity_curve' = Append(equity_curve,
                       EquityPoint(st.capital, st.positions, timestamp,
                                   current_data))
                /\ UNCHANGED <<pc, result>>

\* a caller appends an order to engine.open_orders.  run_historical never
\* suspends, so in a historical run this happens before it.
Enqueue ==
    /\ pc = IF mode = "historical" THEN "created" ELSE "running"
    /\ Len(appended) < MaxOrders
    /\ \E order \in OrderRequest :
          /\ open_orders' = Append(open_orders, order)
          /\ appended' = Append(appended, order)
    /\ UNCHANGED call_vars
    /\ UNCHANGED fetch_vars
    /\ UNCHANGED cache
    /\ UNCHANGED feed_vars
    /\ UNCHANGED <<mode, pc, symbols, fetch_failed, slippage_model,
                   current_capital, positions, filled_orders, trades,
                   trade_history, equity_curve, latest, feed, present,
                   signals, strategy_raised, fills,
                   result>>

\* run_historical, lines 108-118: fetch_historical_data for each symbol; a
\* fetch that fails returns an empty frame
FetchHistoricalData ==
    /\ mode = "historical"
    /\ pc = "created"
    /\ pc' = "running"
    /\ fetch_failed' \in SUBSET Symbols
    /\ UNCHANGED call_vars
    /\ UNCHANGED fetch_vars
    /\ UNCHANGED cache
    /\ UNCHANGED feed_vars
    /\ UNCHANGED <<mode, symbols, slippage_model, current_capital, positions,
                   open_orders, filled_orders, trades, trade_history,
                   equity_curve, latest, feed, present,
                   signals, strategy_raised, fills, appended,
                   result>>

\* run_historical: one iteration of "for timestamp in timestamps", the sorted
\* set of the timestamps; a timestamp of the model is its rank in that set
HistTick ==
    /\ mode = "historical"
    /\ pc = "running"
    /\ Len(feed) < MaxTicks
    /\ \E snapshot \in Snapshots, outcome \in StrategyOutcomes :
          /\ feed' = Append(feed, Now + 1)
          /\ present' = {s \in Symbols : snapshot[s] # NoBar}
          /\ latest' = [s \in Symbols |->
                          IF snapshot[s] # NoBar THEN snapshot[s] ELSE latest[s]]
          /\ IF \E s \in Symbols : latest'[s] = NoBar
             THEN \* df[df.index <= timestamp].iloc[-1] raises IndexError
                  /\ pc' = "done"
                  /\ result' = EmptyDict
                  /\ strategy_raised' = FALSE
                  /\ UNCHANGED <<current_capital, positions, open_orders,
                                 filled_orders, trades, equity_curve, fills,
                                 appended, signals>>
             ELSE Tick(latest', Now + 1, outcome,
                       pc' = "done" /\ result' = EmptyDict)
    /\ UNCHANGED call_vars
    /\ UNCHANGED fetch_vars
    /\ UNCHANGED cache
    /\ UNCHANGED feed_vars
    /\ UNCHANGED <<mode, symbols, fetch_failed, slippage_model, trade_history>>

\* run_historical: the timeline is exhausted, _generate_results
HistFinish ==
    /\ mode = "historical"
    /\ pc = "running"
    /\ pc' = "done"
    /\ result' = GenerateResults
    /\ UNCHANGED call_vars
    /\ UNCHANGED fetch_vars
    /\ UNCHANGED cache
    /\ UNCHANGED feed_vars
    /\ UNCHANGED <<mode, symbols, fetch_failed, slippage_model,
                   current_capital, positions, open_orders, filled_orders,
                   trades, trade_history, equity_curve, latest, feed, present,
                   signals, strategy_raised, fills, appended>>

\* DataHandler._handle_kline_data: the candle becomes the symbol's last one
HandleKlineData ==
    /\ mode = "realtime"
    /\ pc = "running"
    /\ \E s \in Symbols, candle \in Bars :
          /\ latest[s] # candle
          /\ latest' = [latest EXCEPT ![s] = candle]
    /\ UNCHANGED call_vars
    /\ UNCHANGED fetch_vars
    /\ UNCHANGED cache
    /\ UNCHANGED feed_vars
    /\ UNCHANGED <<mode, pc, symbols, fetch_failed, slippage_model,
                   current_capital, positions, open_orders, filled_orders,
                   trades, trade_history, equity_curve, feed, present,
                   signals, strategy_raised, fills,
                   appended, result>>

\* BacktestEngine._handle_realtime_update, called with a message whose event
\* time is E, no earlier than the one before; every exception ends in its
\* except clause
HandleRealtimeUpdate ==
    /\ mode = "realtime"
    /\ pc = "running"
    /\ Len(feed) < MaxTicks
    /\ \E E \in {t \in {Now, Now + 1} : t >= 1},
          outcome \in StrategyOutcomes :
          /\ feed' = Append(feed, E)
          /\ IF \E s \in Symbols : latest[s] = NoBar
             THEN \* get_latest_data(symbol).iloc[-1] raises IndexError
                  /\ strategy_raised' = FALSE
                  /\ UNCHANGED <<current_capital, positions, open_orders,
                              filled_orders, trades, equity_curve, fills,
                              appended, signals, pc, result>>
             ELSE Tick(latest, E, outcome, UNCHANGED <<pc, result>>)
    /\ UNCHANGED call_vars
    /\ UNCHANGED fetch_vars
    /\ UNCHANGED cache
    /\ UNCHANGED feed_vars
    /\ UNCHANGED <<mode, symbols, fetch_failed, slippage_model, trade_history,
                   latest, present>>

\* run_realtime: the duration has elapsed, close and _generate_results;
\* ws.close() makes the recv() of the message-processing task raise
RealtimeFinish ==
    /\ mode = "realtime"
    /\ pc = "running"
    /\ pc' = "done"
    /\ result' = GenerateResults
    /\ ws_task' = IF ws_task = "running" THEN "stopped" ELSE ws_task
    /\ UNCHANGED received
    /\ UNCHANGED call_vars
    /\ UNCHANGED fetch_vars
    /\ UNCHANGED cache
    /\ UNCHANGED <<mode, symbols, fetch_failed, slippage_model,
                   current_capital, positions, open_orders, filled_orders,
                   trades, trade_history, equity_curve, latest, feed, present,
                   signals, strategy_raised, fills, appended>>

Next ==
    \/ Enqueue
    \/ FetchHistoricalData
    \/ HistTick
    \/ HistFinish
    \/ HandleKlineData
    \/ HandleRealtimeUpdate
    \/ RealtimeFinish

Spec == Init /\ [][Next]_vars

\* the returns, in hundredths, that a returns series is made of
Returns == {-1, 0, 1}
ReturnSeries == UNION {[1..n -> Returns] : n \in 0..MaxReturns}
\* the pnl of a trade handed to add_trade, in tenths of a dollar
Pnls == {-10, 0, 10}

\* a PerformanceAnalyzer, and the returns of a call of
\* _calculate_sortino_ratio
InitAnalyzer ==
    /\ mode = "analyzer"
    /\ symbols = <<"BTCUSDT">>
    /\ slippage_model = "basic"
    /\ Constructed
    /\ metrics_log = <<>>
    /\ analyzer_equity = <<>>
    /\ returns \in ReturnSeries
    /\ sortino = NoCall
    /\ slippage_call = NoSlippageCall
    /\ slippage_result = NoCall
    /\ NoTask
    /\ NoFetch

\* PerformanceAnalyzer.add_trade
AddTrade ==
    /\ mode = "analyzer"
    /\ Len(trades) < MaxTrades
    /\ \E pnl \in Pnls :
          trades' = Append(trades,
             [entry_time |-> 1, exit_time |-> 1, symbol |-> "BTCUSDT",
              side |-> "buy", entry_price |-> 50, exit_price |-> 50,
              quantity |-> 1, pnl |-> pnl, fees |-> 0, slippage |-> 0,
              holding_period |-> 0, return_pct |-> 0])
    /\ metrics_log' = <<>>
    /\ UNCHANGED <<mode, pc, symbols, fetch_failed, slippage_model,
                   current_capital, positions, open_orders, filled_orders,
                   trade_history, equity_curve, latest, feed, present,
                   signals, strategy_raised, fills, appended, result,
                   analyzer_equity, returns, sortino, slippage_call,
                   slippage_result, ws_task, received>>
    /\ UNCHANGED fetch_vars
    /\ UNCHANGED cache

\* a call of PerformanceAnalyzer.calculate_metrics
CalculateMetricsCall ==
    /\ mode = "analyzer"
    /\ Len(metrics_log) < MaxCalls
    /\ metrics_log' = Append(metrics_log, CalculateMetrics(trades))
    /\ analyzer_equity' = IF trades = <<>> THEN analyzer_equity
                          ELSE CumulativeEquity(trades, InitialCapital)
    /\ UNCHANGED <<mode, pc, symbols, fetch_failed, slippage_model,
                   current_capital, positions, open_orders, filled_orders,
                   trades, trade_history, equity_curve, latest, feed,
                   present, signals, strategy_raised, fills, appended,
                   result, returns, sortino, slippage_call, slippage_result,
                   ws_task, received>>
    /\ UNCHANGED fetch_vars
    /\ UNCHANGED cache

\* a call of PerformanceAnalyzer._calculate_sortino_ratio
CalculateSortinoRatioCall ==
    /\ mode = "analyzer"
    /\ sortino = NoCall
    /\ sortino' = SortinoRatio(returns)
    /\ UNCHANGED <<mode, pc, symbols, fetch_failed, slippage_model,
                   current_capital, positions, open_orders, filled_orders,
                   trades, trade_history, equity_curve, latest, feed,
                   present, signals, strategy_raised, fills, appended,
                   result, metrics_log, analyzer_equity, returns,
                   slippage_call, slippage_result, ws_task, received>>
    /\ UNCHANGED fetch_vars
    /\ UNCHANGED cache

NextAnalyzer ==
    \/ AddTrade
    \/ CalculateMetricsCall
    \/ CalculateSortinoRatioCall

SpecAnalyzer == InitAnalyzer /\ [][NextAnalyzer]_vars

\* the volume of the candle of a call of _calculate_slippage
CallVolumes == {0, 1, 2}

\* an engine, and the arguments of a call of _calculate_slippage
InitSlippage ==
    /\ mode = "slippage"
    /\ symbols = <<"BTCUSDT">>
    /\ slippage_model \in SlippageModels
    /\ Constructed
    /\ metrics_log = <<>>
    /\ analyzer_equity = <<>>
    /\ returns = <<>>
    /\ sortino = NoCall
    /\ slippage_call \in [model : {slippage_model}, quantity : 1..(MaxQty + 2),
                          fill_price : Prices, volume : CallVolumes]
    /\ slippage_result = NoCall
    /\ NoTask
    /\ NoFetch

\* a call of BacktestEngine._calculate_slippage
CalculateSlippageCall ==
    /\ mode = "slippage"
    /\ slippage_result = NoCall
    /\ slippage_result' = SlippageValue(slippage_model, slippage_call.quantity,
                                        slippage_call.fill_price,
                                        slippage_call.volume)
    /\ UNCHANGED <<mode, pc, symbols, fetch_failed, slippage_model,
                   current_capital, positions, open_orders, filled_orders,
                   trades, trade_history, equity_curve, latest, feed,
                   present, signals, strategy_raised, fills, appended,
                   result, metrics_log, analyzer_equity, returns, sortino,
                   slippage_call, ws_task, received>>
    /\ UNCHANGED fetch_vars
    /\ UNCHANGED cache

NextSlippage == CalculateSlippageCall

SpecSlippage == InitSlippage /\ [][NextSlippage]_vars

NextMulti ==
    \/ Enqueue
    \/ FetchHistoricalData
    \/ HistTick
    \/ HistFinish

SpecMulti == InitMulti /\ [][NextMulti]_vars

\* the messages of the feed: a kline of a symbol, or a ticker, with event
\* time E
WsMessages ==
    {[e |-> "kline", s |-> s, E |-> Now + 1, k |-> candle] :
        s \in Symbols, candle \in Candle(50, 51, 50)}
    \cup {[e |-> "ticker", s |-> s, E |-> Now + 1, k |-> NoBar] :
             s \in Symbols}

\* a realtime run on a DataHandler for which a task runs
\* _process_ws_messages
InitRealtime ==
    /\ mode = "realtime"
    /\ symbols \in SymbolLists
    /\ slippage_model = "basic"
    /\ Constructed
    /\ NoCalls
    /\ ws_task = "running"
    /\ received = <<>>
    /\ NoFetch

\* DataHandler._process_ws_messages: either ws.recv() raises, or it returns
\* a message and json.loads(message) raises NameError, the module importing
\* no json; both end in the except clause (lines 228-229), which ends the
\* task.  The dispatch to the handlers and to the subscribers (lines 218-226)
\* is never reached.
ProcessWsMessages ==
    /\ ws_task = "running"
    /\ ws_task' = "stopped"
    /\ \/ received' = received
       \/ \E message \in WsMessages : received' = Append(received, message)
    /\ UNCHANGED call_vars
    /\ UNCHANGED fetch_vars
    /\ UNCHANGED cache
    /\ UNCHANGED <<mode, pc, symbols, fetch_failed, slippage_model,
                   current_capital, positions, open_orders, filled_orders,
                   trades, trade_history, equity_curve, latest, feed, present,
                   signals, strategy_raised, fills, appended, result>>

\* the task awaiting run_realtime is cancelled: CancelledError is raised at
\* "await asyncio.sleep(1)" (line 173); it is not an Exception, so neither
\* close (line 176), _generate_results (line 179) nor the except clause
\* (line 181) runs, and run_realtime returns nothing
CancelRun ==
    /\ mode = "realtime"
    /\ pc = "running"
    /\ pc' = "cancelled"
    /\ UNCHANGED call_vars
    /\ UNCHANGED fetch_vars
    /\ UNCHANGED cache
    /\ UNCHANGED feed_vars
    /\ UNCHANGED <<mode, symbols, fetch_failed, slippage_model,
                   current_capital, positions, open_orders, filled_orders,
                   trades, trade_history, equity_curve, latest, feed, present,
                   signals, strategy_raised, fills, appended, result>>

NextRealtime ==
    \/ Enqueue
    \/ HandleKlineData
    \/ HandleRealtimeUpdate
    \/ RealtimeFinish
    \/ ProcessWsMessages
    \/ CancelRun

SpecRealtime == InitRealtime /\ [][NextRealtime]_vars

\* ------------------------------------------------ fetch_historical_data
\* the largest end_time of a call, and the candles of one fetch_ohlcv call
\* (limit=1000 in the code)
MaxEnd == 6
ChunkLimit == 3
\* the time between two candles of the timeframe, the unit being such that
\* the "+ 1" of the cursor (line 149) is less than it
Period == 2
\* the offsets of local time from UTC, in the same unit
UtcOffsets == {-1, 0, 1}

\* MockExchange.fetch_ohlcv: limit candles, one per period, from
\* datetime.fromtimestamp(since/1000), the local wall-clock time of since,
\* which Timestamp.timestamp() then reads as a UTC time; limit and the
\* period are all that bounds them
MockFetchOhlcv(since, limit) ==
    [k \in 1..limit |-> since + utc_offset + (k - 1) * Period]

\* a call fetch_historical_data(symbol, start_time, end_time, timeframe) on
\* a DataHandler whose exchange is the MockExchange, at lines 133-139
InitFetch ==
    /\ mode = "fetch"
    /\ symbols = <<"BTCUSDT">>
    /\ slippage_model = "basic"
    /\ Constructed
    /\ NoCalls
    /\ NoTask
    /\ start_ts \in 1..MaxEnd
    /\ end_ts \in start_ts..MaxEnd
    /\ utc_offset \in UtcOffsets
    /\ current_ts = start_ts
    /\ all_candles = <<>>
    /\ fetch_pc = "loop"
    /\ cache = <<>>

\* fetch_historical_data, lines 141-149: one iteration of the chunk loop.
\* "if not candles: break" is never taken, the chunk having limit candles.
FetchChunk ==
    /\ fetch_pc = "loop"
    /\ current_ts < end_ts
    /\ LET candles == MockFetchOhlcv(current_ts, ChunkLimit)
       IN  /\ all_candles' = all_candles \o candles
           /\ current_ts' = candles[Len(candles)] + 1
    /\ UNCHANGED <<start_ts, end_ts, utc_offset, fetch_pc, cache>>
    /\ UNCHANGED call_vars
    /\ UNCHANGED feed_vars
    /\ UNCHANGED <<mode, pc, symbols, fetch_failed, slippage_model,
                   current_capital, positions, open_orders, filled_orders,
                   trades, trade_history, equity_curve, latest, feed, present,
                   signals, strategy_raised, fills, appended, result>>

\* fetch_historical_data, lines 141 and 151-163: the loop is left and the
\* frame of all_candles is returned
FetchReturn ==
    /\ fetch_pc = "loop"
    /\ ~(current_ts < end_ts)
    /\ fetch_pc' = "returned"
    /\ UNCHANGED <<start_ts, end_ts, utc_offset, current_ts, all_candles,
                   cache>>
    /\ UNCHANGED call_vars
    /\ UNCHANGED feed_vars
    /\ UNCHANGED <<mode, pc, symbols, fetch_failed, slippage_model,
                   current_capital, positions, open_orders, filled_orders,
                   trades, trade_history, equity_curve, latest, feed, present,
                   signals, strategy_raised, fills, appended, result>>

NextFetch ==
    \/ FetchChunk
    \/ FetchReturn

SpecFetch == InitFetch /\ [][NextFetch]_vars

\* ------------------------------------------------------------ DataCache
\* the longest frame handed to add or update
MaxRecords == 3
\* DataCache(max_size)
CacheMaxSize == 2
CacheSymbols == {"BTCUSDT", "ETHUSDT"}
\* the rows of a frame: a timestamp and a close
Rows == [timestamp : 1..3, close : {50}]
Frames == UNION {[1..n -> Rows] : n \in 0..MaxRecords}

\* data[-n:] for n > 0: the last n rows
LastRows(data, n) ==
    IF Len(data) > n THEN SubSeq(data, Len(data) - n + 1, Len(data))
    ELSE data

\* DataFrame.drop_duplicates(subset=['timestamp']): of the rows of one
\* timestamp the first is kept
DropDuplicates(data) ==
    SelectSeq([i \in DOMAIN data |->
                  [row |-> data[i],
                   first |-> \A j \in 1..(i - 1) :
                                data[j].timestamp # data[i].timestamp]],
              LAMBDA x : x.first)

\* a dict with key set to value
SetItem(dict, key, value) ==
    [k \in DOMAIN dict \cup {key} |-> IF k = key THEN value ELSE dict[k]]

\* DataCache.__init__
InitCache ==
    /\ mode = "cache"
    /\ symbols = <<"BTCUSDT">>
    /\ slippage_model = "basic"
    /\ Constructed
    /\ NoCalls
    /\ NoTask
    /\ start_ts = 0
    /\ end_ts = 0
    /\ utc_offset = 0
    /\ current_ts = 0
    /\ all_candles = <<>>
    /\ fetch_pc = "idle"
    /\ cache = <<>>

\* DataCache.add
CacheAdd ==
    /\ mode = "cache"
    /\ \E symbol \in CacheSymbols, data \in Frames :
          cache' = SetItem(cache, symbol,
                           IF Len(data) > CacheMaxSize
                           THEN LastRows(data, CacheMaxSize) ELSE data)
    /\ UNCHANGED call_vars
    /\ UNCHANGED feed_vars
    /\ UNCHANGED fetch_vars
    /\ UNCHANGED <<mode, pc, symbols, fetch_failed, slippage_model,
                   current_capital, positions, open_orders, filled_orders,
                   trades, trade_history, equity_curve, latest, feed, present,
                   signals, strategy_raised, fills, appended, result>>

\* DataCache.update
CacheUpdate ==
    /\ mode = "cache"
    /\ \E symbol \in CacheSymbols, new_data \in Frames :
          IF symbol \notin DOMAIN cache
          THEN cache' = SetItem(cache, symbol, new_data)
          ELSE LET deduplicated == DropDuplicates(cache[symbol] \o new_data)
                   combined == [i \in DOMAIN deduplicated |->
                                   deduplicated[i].row]
               IN  cache' = SetItem(cache, symbol,
                                    IF Len(combined) > CacheMaxSize
                                    THEN LastRows(combined, CacheMaxSize)
                                    ELSE combined)
    /\ UNCHANGED call_vars
    /\ UNCHANGED feed_vars
    /\ UNCHANGED fetch_vars
    /\ UNCHANGED <<mode, pc, symbols, fetch_failed, slippage_model,
                   current_capital, positions, open_orders, filled_orders,
                   trades, trade_history, equity_curve, latest, feed, present,
                   signals, strategy_raised, fills, appended, result>>

\* DataCache.clear
CacheClear ==
    /\ mode = "cache"
    /\ cache # <<>>
    /\ cache' = <<>>
    /\ UNCHANGED call_vars
    /\ UNCHANGED feed_vars
    /\ UNCHANGED fetch_vars
    /\ UNCHANGED <<mode, pc, symbols, fetch_failed, slippage_model,
                   current_capital, positions, open_orders, filled_orders,
                   trades, trade_history, equity_curve, latest, feed, present,
                   signals, strategy_raised, fills, appended, result>>

NextCache ==
    \/ CacheAdd
    \/ CacheUpdate
    \/ CacheClear

SpecCache == InitCache /\ [][NextCache]_vars

\* ------------------------------------------------------------ properties
Count(seq, x) == Cardinality({i \in DOMAIN seq : seq[i] = x})

\* a step that simulates one tick, and one whose tick reaches _process_orders
TickStep == Len(feed') = Len(feed) + 1
ProcessedTick == TickStep /\ \A s \in Symbols : latest'[s] # NoBar

\* the fills of the step, as indices of fills'
NewFills == (Len(fills) + 1)..Len(fills')

Notional(fill) ==
    fill.order.quantity * fill.response.average_price * PriceScale

\* the sum over the fills of what the claim of capital conservation debits:
\* buy notional + fees, minus sell notional - fees; with_slippage adds the
\* slippage to the fees
RECURSIVE NetDebit(_, _)
NetDebit(fs, with_slippage) ==
    IF fs = <<>> THEN 0
    ELSE LET fill == Head(fs)
             cost == fill.response.fees
                       + (IF with_slippage THEN fill.slippage ELSE 0)
         IN  (IF fill.order.side = OrderSide_BUY
              THEN Notional(fill) + cost
              ELSE -(Notional(fill) - cost))
             + NetDebit(Tail(fs), with_slippage)

RoundTrip ==
    /\ Len(fills) = 2
    /\ fills[1].order.side = OrderSide_BUY
    /\ fills[2].order.side = OrderSide_SELL
    /\ fills[1].order.symbol = fills[2].order.symbol
    /\ fills[1].order.quantity = fills[2].order.quantity

\* C2: from flat, a filled buy of q then a filled sell of q of the same symbol
\* leave position.quantity = 0 and exactly one TradeRecord, of quantity q.
C2_RoundTripFlatness ==
    RoundTrip =>
        /\ positions[fills[1].order.symbol].quantity = 0
        /\ Len(trades) = 1
        /\ trades[1].quantity = fills[1].order.quantity

C4_TradeIffCloseOrFlip ==
    [][(Len(fills') = Len(fills) + 1) =>
         LET symbol == fills'[Len(fills')].order.symbol
             before == PositionOf(positions, symbol).quantity
             after == positions'[symbol].quantity
             closes == before # 0 /\ (after = 0 \/ before * after < 0)
         IN  (Len(trades') = Len(trades) + 1) <=> closes]_vars

\* PerformanceAnalyzer.calculate_metrics, lines 155-157 and 192
TotalTrades(ts) == Len(ts)
WinningTrades(ts) == Cardinality({i \in DOMAIN ts : ts[i].pnl > 0})
WinRate(ts) ==
    IF TotalTrades(ts) > 0 THEN Rat(WinningTrades(ts), TotalTrades(ts))
    ELSE Rat(0, 1)

\* C5: the TradeRecord of a closing fill carries
\* (exit - entry) * quantity - fees - slippage of the round trip; buying 1 at
\* 50000 and selling 1 at 51000 gives, with no slippage, one TradeRecord of
\* pnl 899, capital 100899, total_trades 1 and win_rate 1.
C5_RealizedPnl ==
    RoundTrip =>
        LET q == fills[1].order.quantity
            entry == fills[1].response.average_price
            exit == fills[2].response.average_price
            costs == fills[1].response.fees + fills[2].response.fees
                       + fills[1].slippage + fills[2].slippage
            pnl == (exit - entry) * q * PriceScale - costs
        IN  /\ Len(trades) = 1
            /\ trades[Len(trades)].pnl = pnl
            /\ TotalTrades(trades) = 1
            /\ (pnl > 0) => WinRate(trades) = Rat(1, 1)
            /\ (q = 1 /\ entry = 50 /\ exit = 51
                  /\ fills[1].slippage = 0 /\ fills[2].slippage = 0)
               => /\ trades[Len(trades)].pnl = 8990
                  /\ current_capital = 1008990

\* the limit-order rule of the claim, for a candle
LimitCrossed(order, candle) ==
    \/ order.side = OrderSide_BUY /\ candle.low <= order.price
    \/ order.side = OrderSide_SELL /\ candle.high >= order.price

\* C6: at every tick a pending limit order fills iff the candle crosses its
\* limit price, and then at exactly the limit price; otherwise it stays in the
\* pending list.
C6_LimitFillRule ==
    [][ProcessedTick =>
         \A order \in {open_orders[i] : i \in DOMAIN open_orders} :
            order.order_type \in {"limit", OrderType_LIMIT} =>
               LET filled == {i \in NewFills : fills'[i].order = order}
               IN  IF LimitCrossed(order, latest'[order.symbol])
                   THEN /\ Cardinality(filled) = Count(open_orders, order)
                        /\ Count(open_orders', order) = 0
                        /\ \A i \in filled :
                              fills'[i].response.average_price = order.price
                   ELSE /\ filled = {}
                        /\ Count(open_orders', order)
                             = Count(open_orders, order)]_vars

\* C7: a market order, one whose order_type is OrderType.MARKET, fills on the
\* first candle it is evaluated against, at that candle's close, which lies
\* within [low, high].
C7_MarketFillsAtClose ==
    [][ProcessedTick =>
         \A order \in {open_orders[i] : i \in DOMAIN open_orders} :
            order.order_type = OrderType_MARKET =>
               LET candle == latest'[order.symbol]
               IN  /\ CalculateFillPrice(order, candle) = candle.close
                   /\ candle.low <= candle.close /\ candle.close <= candle.high
                   /\ Count(open_orders', order) = 0
                   /\ \E i \in NewFills :
                         /\ fills'[i].order = order
                         /\ fills'[i].response.average_price = candle.close]_vars

\* C8: a limit order whose time_in_force has expired without a fill is
\* removed from the pending orders.  An immediate-or-cancel order expires at
\* its first evaluation: none is pending after a tick that evaluated it.
C8_ExpiredOrderRemoved ==
    [][ProcessedTick =>
         \A order \in {open_orders[i] : i \in DOMAIN open_orders} :
            (/\ order.order_type \in {"limit", OrderType_LIMIT}
             /\ order.time_in_force = "IOC")
            => Count(open_orders', order) = 0]_vars

\* C9: each appended order produces at most one fill, of the order's full
\* quantity, and a filled order is no longer pending, also when several
\* pending orders are equal: of the orders equal to a given one, those
\* pending and those filled are together no more than those appended.
C9_AtMostOneFill ==
    /\ Len(fills) = Len(filled_orders)
    /\ \A i \in DOMAIN fills :
          /\ fills[i].response = filled_orders[i]
          /\ filled_orders[i].filled_quantity = fills[i].order.quantity
    /\ \A order \in {appended[i] : i \in DOMAIN appended}
                       \cup {open_orders[i] : i \in DOMAIN open_orders}
                       \cup {fills[i].order : i \in DOMAIN fills} :
          Count(open_orders, order)
            + Cardinality({i \in DOMAIN fills : fills[i].order = order})
          <= Count(appended, order)

\* two equal orders were appended and each has been filled
C9_Witness ==
    \E i, j \in DOMAIN fills :
       /\ i # j
       /\ fills[i].order = fills[j].order
       /\ open_orders = <<>>
       /\ Len(appended) = 2

\* C10: one EquityPoint per simulated tick, their timestamps strictly
\* increasing and equal to the feed's timeline, in either mode.
C10_EquityTimeline ==
    /\ Len(equity_curve) = Len(feed)
    /\ \A i \in DOMAIN equity_curve :
          /\ i \in DOMAIN feed => equity_curve[i].timestamp = feed[i]
          /\ i > 1 => equity_curve[i - 1].timestamp < equity_curve[i].timestamp

\* the order quantity of a fill, positive for a buy and negative for a sell
Signed(fill) ==
    IF fill.order.side = OrderSide_BUY THEN fill.order.quantity
    ELSE -fill.order.quantity

\* the sum of the signed quantities of the fills i of fs with i in todo that
\* are fills of symbol
RECURSIVE SignedSum(_, _, _)
SignedSum(fs, todo, symbol) ==
    IF todo = {} THEN 0
    ELSE LET i == CHOOSE j \in todo : TRUE
         IN  (IF fs[i].order.symbol = symbol THEN Signed(fs[i]) ELSE 0)
             + SignedSum(fs, todo \ {i}, symbol)

\* C11: after the fills of a step, positions[symbol].quantity is its value
\* before plus the quantity of each buy and minus the quantity of each sell;
\* it is never clamped at zero, a sell of more than is held leaves it negative.
C11_QuantityAdditive ==
    [][\A symbol \in Symbols :
          LET before == PositionOf(positions, symbol).quantity
              after == PositionOf(positions', symbol).quantity
          IN  after = before + SignedSum(fills', NewFills, symbol)]_vars

\* 1 was bought, then 2 were sold: the position is short 1
C11_Witness ==
    /\ Len(fills) = 2
    /\ Signed(fills[1]) = 1
    /\ Signed(fills[2]) = -2
    /\ fills[1].order.symbol = fills[2].order.symbol
    /\ positions[fills[1].order.symbol].quantity = -1

\* a step with exactly one fill: the fill, the position before and after it
OneFill == Len(fills') = Len(fills) + 1
TheFill == fills'[Len(fills')]
Before == PositionOf(positions, TheFill.order.symbol)
After == positions'[TheFill.order.symbol]
SameDirection == Before.quantity * Signed(TheFill) > 0
Reduces ==
    /\ Before.quantity * Signed(TheFill) < 0
    /\ Abs(Signed(TheFill)) <= Abs(Before.quantity)
Flips == Before.quantity * After.quantity < 0

\* C12: a fill on a flat position sets average_price to the fill price; one
\* that extends the exposure sets it to the quantity-weighted average of the
\* prior exposure and the fill; one that reduces or exactly closes the
\* exposure leaves it unchanged.
C12_AveragePriceRule ==
    [][OneFill =>
         LET p == TheFill.response.average_price
             q == Abs(Signed(TheFill))
             held == Abs(Before.quantity)
         IN  /\ Before.quantity = 0 => After.average_price = Rat(p, 1)
             /\ SameDirection =>
                  After.average_price
                    = Rat(held * Before.average_price.n
                            + q * p * Before.average_price.d,
                          (held + q) * Before.average_price.d)
             /\ Reduces => After.average_price = Before.average_price]_vars

\* 1 was bought at 50 and 1 more at 51: the average price is 50.5
C12_Witness ==
    /\ Len(fills) = 2
    /\ Signed(fills[1]) = 1 /\ fills[1].response.average_price = 50
    /\ Signed(fills[2]) = 1 /\ fills[2].response.average_price = 51
    /\ fills[1].response.timestamp < fills[2].response.timestamp
    /\ positions[fills[1].order.symbol].average_price = [n |-> 101, d |-> 2]

\* C13: a fill larger than the opposite open quantity is split, closed
\* portion first: a TradeRecord for the closed portion (the prior absolute
\* quantity, entered at the old average price) and a fresh position for the
\* excess, whose average_price is the fill price.
C13_ReversalSplit ==
    [][(OneFill /\ Flips) =>
         /\ After.quantity = Before.quantity + Signed(TheFill)
         /\ After.average_price = Rat(TheFill.response.average_price, 1)
         /\ Len(trades') = Len(trades) + 1
         /\ trades'[Len(trades')].quantity = Abs(Before.quantity)
         /\ Rat(trades'[Len(trades')].entry_price, 1) = Before.average_price
         /\ trades'[Len(trades')].exit_price
              = TheFill.response.average_price]_vars

\* C14: if the strategy raises at tick t of a historical run, the exception is
\* caught for that tick only: no order is created, what the run accumulated
\* is kept, an EquityPoint is still appended for tick t and the run goes on
\* with tick t+1 instead of ending.
C14_StrategyFailureIsolated ==
    [][(mode = "historical" /\ TickStep /\ strategy_raised') =>
         /\ appended' = appended
         /\ Len(trades') >= Len(trades)
         /\ Len(equity_curve') = Len(equity_curve) + 1
         /\ equity_curve'[Len(equity_curve')].timestamp = feed'[Len(feed')]
         /\ pc' = "running"
         /\ result' = NoResult]_vars

\* C15: when fetching historical data fails for a symbol, run_historical
\* returns a result that is marked as failed, one that carries an error field,
\* never an unmarked empty or partial result.
C15_FailedRunMarked ==
    (mode = "historical" /\ pc = "done" /\ fetch_failed # {}) =>
        /\ result # EmptyDict
        /\ result.tag = "failed"

\* the pending orders of a symbol
PendingOf(orders, symbol) ==
    SelectSeq(orders, LAMBDA order : order.symbol = symbol)

\* C16: at a tick whose timestamp is absent from symbol S's series no pending
\* order of S is evaluated or filled, S's last price being carried forward for
\* the mark-to-market only; and the tick is processed for the other symbols
\* also when S has no candle yet at or before that timestamp.
C16_AbsentSymbolNotEvaluated ==
    [][(mode = "historical" /\ TickStep) =>
         /\ \A i \in NewFills : fills'[i].order.symbol \in present'
         /\ \A symbol \in Symbols \ present' :
               /\ latest'[symbol] = latest[symbol]
               /\ PendingOf(open_orders, symbol)
                    = SubSeq(PendingOf(open_orders', symbol), 1,
                             Len(PendingOf(open_orders, symbol)))
         /\ (~strategy_raised') =>
               /\ pc' = "running"
               /\ Len(equity_curve') = Len(equity_curve) + 1]_vars

\* a complete PerformanceMetrics in which every count, PnL figure and ratio
\* is 0
ZeroMetrics ==
    [kind |-> "PerformanceMetrics", total_trades |-> 0, winning_trades |-> 0,
     losing_trades |-> 0, win_rate |-> 0, total_pnl |-> 0, net_pnl |-> 0,
     sharpe_ratio |-> 0, sortino_ratio |-> 0, max_drawdown |-> 0]

\* C17: calculate_metrics with no trades and no equity points returns a
\* complete PerformanceMetrics whose counts, PnL figures and ratios are all 0.
C17_MetricsOnEmptyInput ==
    (trades = <<>> /\ analyzer_equity = <<>>) =>
        \A i \in DOMAIN metrics_log :
           /\ metrics_log[i].kind = "PerformanceMetrics"
           /\ metrics_log[i] = ZeroMetrics

\* C18: two calls of calculate_metrics in a row on the same recorded trades
\* return metrics, and equal ones.
C18_MetricsIdempotent ==
    Len(metrics_log) >= 2 =>
        /\ metrics_log[1] = metrics_log[2]
        /\ metrics_log[1].kind \notin {"TypeError"}
        /\ metrics_log[2].kind \notin {"TypeError"}

\* C19: for a returns series that is not empty and holds no negative return,
\* the sortino ratio is a sentinel that is neither 0 nor a numeric infinity.
C19_SortinoSentinel ==
    (/\ sortino # NoCall
     /\ returns # <<>>
     /\ \A i \in DOMAIN returns : returns[i] >= 0)
    => sortino.kind \notin {"0.0", "inf", "finite"}

\* C20: with the volume_based model a fill against a candle of volume 0 gives
\* a finite slippage, the one the basic model gives for the same fill price.
C20_ZeroVolumeSlippage ==
    (/\ slippage_result # NoCall
     /\ slippage_call.model = "volume_based"
     /\ slippage_call.volume = 0)
    => slippage_result
         = SlippageValue("basic", slippage_call.quantity,
                         slippage_call.fill_price, slippage_call.volume)

\* a step in which the run reaches _generate_results: the timeline is
\* exhausted or the duration has elapsed
Finishes == pc = "running" /\ pc' = "done" /\ feed' = feed

\* C21: a run that reaches _generate_results after at least one order filled
\* returns a result with metrics, equity_curve, trades and positions whose
\* trades list is not empty and as long as the analyzer's total_trades.
C21_ResultComplete ==
    [][(Finishes /\ fills # <<>>) =>
         /\ result'.tag = "results"
         /\ result'.trades # <<>>
         /\ Len(result'.trades) = TotalTrades(trades)]_vars

\* the orders appended by the step, as indices of appended'
NewOrders == (Len(appended) + 1)..Len(appended')

\* C22: at a tick whose strategy call returns, a signal whose position size is
\* <= 0 or whose order cannot be constructed appends nothing: every order the
\* tick appends has a positive quantity and there are no more of them than
\* signals of positive size; the tick still appends its EquityPoint and the
\* run goes on.
C22_OrderValidationLocal ==
    [][(ProcessedTick /\ ~strategy_raised') =>
         /\ \A i \in NewOrders : appended'[i].quantity > 0
         /\ Cardinality(NewOrders)
              <= Cardinality({k \in DOMAIN signals' : signals'[k].size > 0})
         /\ Len(open_orders') - Len(appended')
              = Len(open_orders) - Len(appended) - Cardinality(NewFills)
         /\ Len(equity_curve') = Len(equity_curve) + 1
         /\ equity_curve'[Len(equity_curve')].timestamp = feed'[Len(feed')]
         /\ pc' = "running"
         /\ result' = NoResult]_vars

\* the last tick had a signal of size 0 before one of size 1, its EquityPoint
\* was appended, and it was not the first tick of the run
C22_Witness ==
    /\ pc = "running"
    /\ Len(feed) = 2
    /\ Len(signals) = 2
    /\ signals[1].size <= 0
    /\ signals[2].size > 0
    /\ Len(equity_curve) = 2
    /\ equity_curve[2].timestamp = Now

\* a step in which the message-processing task stops while run_realtime is
\* waiting for its duration to elapse
FeedFails == mode = "realtime" /\ pc = "running"
             /\ ws_task = "running" /\ ws_task' = "stopped"

\* C23: when the message-processing task stops before the duration has
\* elapsed, the realtime run ends at that point and returns the result built
\* from what it accumulated; it does not go on waiting without a feed.
C23_DisconnectEndsRun ==
    [][FeedFails => (pc' = "done" /\ result' = GenerateResults)]_vars

\* a step in which the message-processing task gets a message from the feed
Receives == Len(received') = Len(received) + 1

\* C24: every message the task receives from the feed is handed to the engine
\* and processed as one tick, in arrival order: the step that receives it
\* simulates the tick of its event time and appends that tick's EquityPoint,
\* and the task goes on to the next message.
C24_TickDelivery ==
    [][Receives =>
         /\ ws_task' = "running"
         /\ TickStep
         /\ feed'[Len(feed')] = received'[Len(received')].E
         /\ Len(equity_curve') = Len(equity_curve) + 1]_vars

\* a step in which a realtime run is stopped before its duration has elapsed
Stopped == mode = "realtime" /\ pc = "running" /\ pc' = "cancelled"

\* C25: a realtime run that is stopped releases its data feed and returns the
\* partial result, the tick in progress being completed first; once the run
\* is over, no step changes the engine's capital, positions, open orders or
\* equity curve.
C25_CooperativeStop ==
    [][/\ Stopped =>
            /\ ws_task' # "running"
            /\ result' # NoResult
            /\ result' = GenerateResults
       /\ (mode = "realtime" /\ pc # "running") =>
            UNCHANGED <<current_capital, positions, open_orders,
                        equity_curve>>]_vars

\* sub is seq with some of its elements left out
RECURSIVE IsSubSeq(_, _)
IsSubSeq(sub, seq) ==
    IF sub = <<>> THEN TRUE
    ELSE IF seq = <<>> THEN FALSE
    ELSE IF Head(sub) = Head(seq) THEN IsSubSeq(Tail(sub), Tail(seq))
    ELSE IsSubSeq(sub, Tail(seq))

\* C26: the pending orders are kept in the order of their creation and the
\* fills of a tick are applied in that order: the orders filled by a step are,
\* in fill order, pending orders of the state before in pending order, and
\* the k-th fill of the run gets order_id str(k).
C26_OldestFirst ==
    [][/\ IsSubSeq([i \in 1..(Len(fills') - Len(fills)) |->
                       fills'[Len(fills) + i].order], open_orders)
       /\ IsSubSeq(open_orders', appended')
       /\ \A i \in NewFills :
             /\ fills'[i].response.order_id = Str(i)
             /\ filled_orders'[i] = fills'[i].response]_vars

\* two different orders were pending and both filled at the same tick, the
\* one created first being filled first
C26_Witness ==
    /\ Len(fills) = 2
    /\ Len(appended) = 2
    /\ fills[1].order # fills[2].order
    /\ fills[1].order = appended[1]
    /\ fills[2].order = appended[2]
    /\ fills[1].response.timestamp = fills[2].response.timestamp
    /\ fills[1].response.order_id = "1"
    /\ fills[2].response.order_id = "2"

\* C29: the orders ever appended to open_orders are as many as the pending
\* and the filled ones together, every fill of a step takes one order out of
\* open_orders and puts one OrderResponse into filled_orders, and the
\* order_ids of filled_orders are "1", "2", ..., "n" in fill order.
C29_OrderBookkeeping ==
    [][/\ Len(appended') = Len(open_orders') + Len(filled_orders')
       /\ Len(filled_orders') - Len(filled_orders) = Cardinality(NewFills)
       /\ (Len(appended') - Len(appended))
            - (Len(open_orders') - Len(open_orders)) = Cardinality(NewFills)
       /\ \A i \in DOMAIN filled_orders' :
             filled_orders'[i].order_id = Str(i)
       /\ \A i, j \in DOMAIN filled_orders' :
             i # j => filled_orders'[i].order_id # filled_orders'[j].order_id]_vars

\* two orders were appended, one was filled at the first tick and the other
\* at the second
C29_Witness ==
    /\ Len(appended) = 2
    /\ open_orders = <<>>
    /\ Len(filled_orders) = 2
    /\ filled_orders[1].order_id = "1"
    /\ filled_orders[2].order_id = "2"
    /\ filled_orders[1].timestamp < filled_orders[2].timestamp

\* C27: a historical run goes through its phases in order: no tick is
\* simulated before the data of every symbol has been fetched, the run ends
\* only by finalizing (_generate_results) once the timeline is exhausted,
\* never in the middle of the simulation, and a finished run stays finished.
C27_HistoricalPhases ==
    [][mode = "historical" =>
         /\ TickStep => pc = "running"
         /\ pc = "created" => pc' \in {"created", "running"}
         /\ (pc # "done" /\ pc' = "done") => Finishes
         /\ pc = "done" => pc' = "done"]_vars

\* C28: every bar that fetch_historical_data returns has a timestamp t with
\* start_time <= t <= end_time, also when the last chunk of the exchange
\* extends past end_time.
C28_BarsWithinWindow ==
    fetch_pc = "returned" =>
        \A i \in DOMAIN all_candles :
           start_ts <= all_candles[i] /\ all_candles[i] <= end_ts

\* C30: after any sequence of add, update and clear calls the frame cached
\* for each symbol holds at most max_size records, also when update is the
\* first call for the symbol and is given more than max_size records.
C30_CacheSizeBound ==
    \A symbol \in DOMAIN cache : Len(cache[symbol]) <= CacheMaxSize

====
